---- MODULE Spec2Model ----
(***************************************************************************)
(* Model of the playback pipeline of video-player-rs (src/src/main.rs):    *)
(* Player::play spawns the buffer thread (feeder) and the two decoder      *)
(* threads, then runs the 'running loop on the control thread.  The four   *)
(* Arc<Mutex<..>> buffers are modelled with their mutexes (owner and       *)
(* poison flag), each thread with its position between lock acquisitions.  *)
(***************************************************************************)
EXTENDS Integers, Sequences, FiniteSets, TLC

VARIABLES
    stream,            \* what the demultiplexer will yield (asset.packets())
    pos,               \* number of packets already pulled from the demultiplexer
    player_buffer,     \* [track -> [buffer, ended]]  video/audio_player_buffer
    rendering_buffer,  \* [track -> frames]           video/audio_rendering_buffer
    pb_lock,           \* [track -> owner of the player buffer mutex]
    pb_poisoned,       \* [track -> the player buffer mutex is poisoned]
    rb_lock,           \* [track -> owner of the rendering buffer mutex]
    feederPc,          \* position of buffer_thread
    decPc,             \* [track -> position of decode_<track>_thread]
    decFrame,          \* [track -> frame the decoder holds, as a 0/1 sequence]
    ctlPc,             \* position of the control thread inside Player::play
    now,               \* time elapsed since playback_start_time, in model time units
    popped,            \* [track -> ids of the packets the decoder popped]
    rendered,          \* [track -> frames handed to the sink (render_frame)]
    eofMarks,          \* [track -> endOfFile() was called: "never", "once", "again"]
    refused            \* [track -> should_render_frame said no to a frame without pts]

vars == <<stream, pos, player_buffer, rendering_buffer, pb_lock, pb_poisoned,
          rb_lock, feederPc, decPc, decFrame, ctlPc, now, popped, rendered,
          eofMarks, refused>>

----------------------------------------------------------------------------
(* Bounds of the model *)

\* longest demultiplexer stream drawn from the full packet alphabet
MaxLen == 2

\* resolution of the clock: model time units in one millisecond
MilliUnits == 2

\* last instant of playback time that is told apart (later instants saturate),
\* in time units
MaxTime == 3

\* longest time one sleep of the control thread is taken to last, in time units
MaxSleep == 3

(* Program constants *)

\* VideoRenderingBuffer::is_full / AudioRenderingBuffer::is_full: len() >= 10
Capacity == 10

\* Duration::from_millis(1) slept at the end of a tick
SleepMillis == 1

----------------------------------------------------------------------------
(* Values *)

Track == {"video", "audio"}

\* Option<T>: None is the empty sequence, Some(x) is <<x>>
None == <<>>

Some(x) == <<x>>

\* PlaybackAssetMetadata::video_stream_index / audio_stream_index; "other" is
\* any stream index that is neither
StreamIndex(t) == t

\* video_time_base / audio_time_base, numerator over denominator (seconds)
TimeBase(t) == IF t = "video" THEN [num |-> 1, den |-> 1000]
                              ELSE [num |-> 3, den |-> 4000]

\* presentation timestamps the decoders produce, in time-base units
PtsSet == {1}

\* what the demultiplexer can yield: the stream index of the packet, whether
\* send_packet accepts it, whether receive_frame yields a frame for it, and
\* the pts of that frame; the frame without pts is the empty one the decoder
\* returns when receive_frame yields nothing
Packets ==
    {[idx |-> i, sendOk |-> TRUE, yields |-> TRUE, pts |-> p] :
        i \in Track, p \in {Some(x) : x \in PtsSet}}
    \cup {[idx |-> i, sendOk |-> TRUE, yields |-> FALSE, pts |-> None] : i \in Track}
    \cup {[idx |-> i, sendOk |-> FALSE, yields |-> FALSE, pts |-> None] : i \in Track}
    \cup {[idx |-> "other", sendOk |-> TRUE, yields |-> FALSE, pts |-> None]}

\* a burst of packets of one track, one more than a full queue
BurstPackets ==
    {[idx |-> i, sendOk |-> TRUE, yields |-> TRUE, pts |-> Some(1)] : i \in Track}

BurstLen == Capacity + 1

Streams ==
    UNION {[1..n -> Packets] : n \in 0..MaxLen}
    \cup {[k \in 1..BurstLen |-> p] : p \in BurstPackets}

\* time elapsed between playback_start_time and the first tick, in time units
StartDelays == {0, 1}

Min(a, b) == IF a < b THEN a ELSE b

----------------------------------------------------------------------------
(* The buffers *)

\* a push at the wrong end of the queue (push_front)
PushFront(q, x) == <<x>> \o q

\* VecDeque::push_back
PushBack(q, x) == Append(q, x)

\* a pop that leaves the head in the queue (front() taken for pop_front())
PeekOnly(q) == q

\* VecDeque::pop_front: the queue that is left; the popped item is Front(q)
PopFront(q) == Tail(q)

\* a look at the wrong end of the queue (back)
Back(q) == q[Len(q)]

\* VecDeque::front of a non-empty queue
Front(q) == Head(q)

\* VideoRenderingBuffer::is_empty / AudioRenderingBuffer::is_empty
is_empty(frames) == Len(frames) = 0

\* VideoRenderingBuffer::is_full / AudioRenderingBuffer::is_full
is_full(frames) == Len(frames) >= Capacity

\* PlayerBuffer::new
NewPlayerBuffer == [buffer |-> <<>>, ended |-> FALSE]

\* PlayerBuffer::push_packet
push_packet(b, packet) == [b EXCEPT !.buffer = PushBack(b.buffer, packet)]

\* an end-of-file mark that flips the flag instead of setting it
endOfFile_toggle(b) == [b EXCEPT !.ended = ~b.ended]

\* PlayerBuffer::endOfFile
endOfFile(b) == [b EXCEPT !.ended = TRUE]

\* a drain test that forgets the packets still queued
has_ended_flag_only(b) == b.ended

\* PlayerBuffer::has_ended
has_ended(b) == b.buffer = <<>> /\ b.ended

----------------------------------------------------------------------------
(* Decoding and the due test *)

\* decode_video_packet / decode_audio_packet after send_packet succeeded: the
\* frame starts empty (no pts), receive_frame fills it when it yields one and
\* its error is dropped by .ok(), the frame is returned either way
decode_packet(id, packet) ==
    IF packet.yields
    THEN [id |-> id, pts |-> packet.pts, empty |-> FALSE]
    ELSE [id |-> id, pts |-> None, empty |-> TRUE]

\* pts as f64 * time_base * 1000_f64, cast to u64 (truncates, negative gives 0)
ShowTimeMillis(pts, tb) ==
    IF pts * tb.num < 0 THEN 0 ELSE (pts * tb.num * 1000) \div tb.den

\* a due test that lets a frame without pts through
should_render_frame_undated_due(frame, tb, elapsed) ==
    IF frame.pts # None
    THEN elapsed > ShowTimeMillis(frame.pts[1], tb) * MilliUnits
    ELSE TRUE

\* a due test that is already true at the instant of the deadline
should_render_frame_at_deadline(frame, tb, elapsed) ==
    IF frame.pts # None
    THEN elapsed >= ShowTimeMillis(frame.pts[1], tb) * MilliUnits
    ELSE FALSE

\* Player::should_render_frame; elapsed is in time units, show_time is a
\* Duration of whole milliseconds
should_render_frame(frame, tb, elapsed) ==
    IF frame.pts # None
    THEN elapsed > ShowTimeMillis(frame.pts[1], tb) * MilliUnits
    ELSE FALSE

----------------------------------------------------------------------------
(* Threads *)

DecoderOf(t) == IF t = "video" THEN "decode_video_thread" ELSE "decode_audio_thread"

\* the process lives until main returns from play() or the main thread panics
Running == ctlPc \notin {"returned", "quit", "panicked"}

TypeOK ==
    /\ stream \in Streams
    /\ pos \in 0..Len(stream)
    /\ \A t \in Track :
        /\ player_buffer[t].ended \in BOOLEAN
        /\ pb_lock[t] \in {"free", "buffer_thread", DecoderOf(t), "main"}
        /\ rb_lock[t] \in {"free", "main"}
        /\ decPc[t] \in {"lock", "pop", "push", "panicked"}
        /\ Len(decFrame[t]) <= 1
        /\ eofMarks[t] \in {"never", "once", "again"}
        /\ refused[t] \in BOOLEAN
    /\ feederPc \in {"next", "eof_audio", "panicked"}
    /\ ctlPc \in {"video", "audio", "events", "lock_vrb", "lock_arb", "has_ended_video",
                 "has_ended_audio", "returned", "quit", "panicked"}
    /\ now \in 0..MaxTime

Init ==
    /\ stream \in Streams
    /\ pos = 0
    /\ player_buffer = [t \in Track |-> NewPlayerBuffer]
    /\ rendering_buffer = [t \in Track |-> <<>>]
    /\ pb_lock = [t \in Track |-> "free"]
    /\ pb_poisoned = [t \in Track |-> FALSE]
    /\ rb_lock = [t \in Track |-> "free"]
    /\ feederPc = "next"
    /\ decPc = [t \in Track |-> "lock"]
    /\ decFrame = [t \in Track |-> None]
    /\ ctlPc = "video"
    /\ now \in StartDelays
    /\ popped = [t \in Track |-> <<>>]
    /\ rendered = [t \in Track |-> <<>>]
    /\ eofMarks = [t \in Track |-> "never"]
    /\ refused = [t \in Track |-> FALSE]

----------------------------------------------------------------------------
(* buffer_thread: main.rs 244-274 *)

\* the record of one more endOfFile() call on a player buffer
MarkedOnceMore(m) == IF m = "never" THEN "once" ELSE "again"

\* the packet asset.packets().next() yields, None once the stream is exhausted
NextPacket == IF pos < Len(stream) THEN Some(stream[pos + 1]) ELSE None

\* the player buffer whose mutex buffer_thread locks next, if any
FeederWants ==
    IF feederPc = "eof_audio" THEN {"audio"}
    ELSE IF feederPc # "next" THEN {}
    ELSE IF NextPacket = None THEN {"video"}
    ELSE {t \in Track : NextPacket[1].idx = StreamIndex(t)}

\* Some((stream, packet)) of a known stream: lock its buffer and push the packet
FeederPush(t) ==
    /\ Running /\ feederPc = "next"
    /\ NextPacket # None /\ NextPacket[1].idx = StreamIndex(t)
    /\ pb_lock[t] = "free" /\ ~pb_poisoned[t]
    /\ pos' = pos + 1
    /\ player_buffer' = [player_buffer EXCEPT ![t] = push_packet(@, pos + 1)]
    /\ UNCHANGED <<stream, rendering_buffer, pb_lock, pb_poisoned, rb_lock, feederPc,
                   decPc, decFrame, ctlPc, now, popped, rendered, eofMarks, refused>>

\* _ => panic!("unrecognized stream index for packet")
FeederUnrecognized ==
    /\ Running /\ feederPc = "next"
    /\ NextPacket # None /\ \A t \in Track : NextPacket[1].idx # StreamIndex(t)
    /\ pos' = pos + 1
    /\ feederPc' = "panicked"
    /\ UNCHANGED <<stream, player_buffer, rendering_buffer, pb_lock, pb_poisoned,
                   rb_lock, decPc, decFrame, ctlPc, now, popped, rendered, eofMarks, refused>>

\* lock().unwrap() on a poisoned mutex panics
FeederPoisoned ==
    /\ Running
    /\ \E t \in FeederWants : pb_lock[t] = "free" /\ pb_poisoned[t]
    /\ pos' = IF NextPacket # None THEN pos + 1 ELSE pos
    /\ feederPc' = "panicked"
    /\ UNCHANGED <<stream, player_buffer, rendering_buffer, pb_lock, pb_poisoned,
                   rb_lock, decPc, decFrame, ctlPc, now, popped, rendered, eofMarks, refused>>

\* the else branch, first block: endOfFile() on the video buffer
FeederEofVideo ==
    /\ Running /\ feederPc = "next"
    /\ NextPacket = None
    /\ pb_lock["video"] = "free" /\ ~pb_poisoned["video"]
    /\ player_buffer' = [player_buffer EXCEPT !["video"] = endOfFile(@)]
    /\ eofMarks' = [eofMarks EXCEPT !["video"] = MarkedOnceMore(@)]
    /\ feederPc' = "eof_audio"
    /\ UNCHANGED <<stream, pos, rendering_buffer, pb_lock, pb_poisoned, rb_lock,
                   decPc, decFrame, ctlPc, now, popped, rendered, refused>>

\* the else branch, second block: endOfFile() on the audio buffer, then loop
FeederEofAudio ==
    /\ Running /\ feederPc = "eof_audio"
    /\ pb_lock["audio"] = "free" /\ ~pb_poisoned["audio"]
    /\ player_buffer' = [player_buffer EXCEPT !["audio"] = endOfFile(@)]
    /\ eofMarks' = [eofMarks EXCEPT !["audio"] = MarkedOnceMore(@)]
    /\ feederPc' = "next"
    /\ UNCHANGED <<stream, pos, rendering_buffer, pb_lock, pb_poisoned, rb_lock,
                   decPc, decFrame, ctlPc, now, popped, rendered, refused>>

----------------------------------------------------------------------------
(* decode_video_thread / decode_audio_thread: main.rs 283-300, 310-326 *)

\* let mut buffer = buffer_ref_clone.lock().unwrap()
DecLock(t) ==
    /\ Running /\ decPc[t] = "lock"
    /\ pb_lock[t] = "free"
    /\ IF pb_poisoned[t]
       THEN decPc' = [decPc EXCEPT ![t] = "panicked"] /\ UNCHANGED pb_lock
       ELSE /\ decPc' = [decPc EXCEPT ![t] = "pop"]
            /\ pb_lock' = [pb_lock EXCEPT ![t] = DecoderOf(t)]
    /\ UNCHANGED <<stream, pos, player_buffer, rendering_buffer, pb_poisoned, rb_lock,
                   feederPc, decFrame, ctlPc, now, popped, rendered, eofMarks, refused>>

\* if let Some(packet) = buffer.packets().pop_front(), and the decoder takes it
DecPop(t) ==
    /\ Running /\ decPc[t] = "pop"
    /\ player_buffer[t].buffer # <<>>
    /\ LET id == Front(player_buffer[t].buffer) IN
        /\ stream[id].sendOk
        /\ decFrame' = [decFrame EXCEPT ![t] = Some(decode_packet(id, stream[id]))]
        /\ popped' = [popped EXCEPT ![t] = Append(@, id)]
    /\ player_buffer' = [player_buffer EXCEPT ![t].buffer = PopFront(@)]
    /\ decPc' = [decPc EXCEPT ![t] = "push"]
    /\ UNCHANGED <<stream, pos, rendering_buffer, pb_lock, pb_poisoned, rb_lock,
                   feederPc, ctlPc, now, rendered, eofMarks, refused>>

\* send_packet(&packet).expect(..) panics: the thread unwinds holding the guard
\* of the player buffer, which poisons that mutex
DecSendFails(t) ==
    /\ Running /\ decPc[t] = "pop"
    /\ player_buffer[t].buffer # <<>>
    /\ LET id == Front(player_buffer[t].buffer) IN
        /\ ~stream[id].sendOk
        /\ popped' = [popped EXCEPT ![t] = Append(@, id)]
    /\ player_buffer' = [player_buffer EXCEPT ![t].buffer = PopFront(@)]
    /\ decPc' = [decPc EXCEPT ![t] = "panicked"]
    /\ pb_lock' = [pb_lock EXCEPT ![t] = "free"]
    /\ pb_poisoned' = [pb_poisoned EXCEPT ![t] = TRUE]
    /\ UNCHANGED <<stream, pos, rendering_buffer, rb_lock, feederPc, decFrame,
                   ctlPc, now, rendered, eofMarks, refused>>

\* pop_front() gave None: the guard is dropped and the loop starts over
DecEmpty(t) ==
    /\ Running /\ decPc[t] = "pop"
    /\ player_buffer[t].buffer = <<>>
    /\ pb_lock' = [pb_lock EXCEPT ![t] = "free"]
    /\ decPc' = [decPc EXCEPT ![t] = "lock"]
    /\ UNCHANGED <<stream, pos, player_buffer, rendering_buffer, pb_poisoned, rb_lock,
                   feederPc, decFrame, ctlPc, now, popped, rendered, eofMarks, refused>>

\* lock the rendering buffer, b.frames.push_back(frame), drop both guards
DecPush(t) ==
    /\ Running /\ decPc[t] = "push"
    /\ rb_lock[t] = "free"
    /\ rendering_buffer' = [rendering_buffer EXCEPT ![t] = PushBack(@, decFrame[t][1])]
    /\ decFrame' = [decFrame EXCEPT ![t] = None]
    /\ pb_lock' = [pb_lock EXCEPT ![t] = "free"]
    /\ decPc' = [decPc EXCEPT ![t] = "lock"]
    /\ UNCHANGED <<stream, pos, player_buffer, pb_poisoned, rb_lock, feederPc,
                   ctlPc, now, popped, rendered, eofMarks, refused>>

----------------------------------------------------------------------------
(* the control thread: the 'running loop of Player::play, main.rs 350-403 *)

\* a "maybe render" block that loops: it hands every frame that is due to the
\* renderer in one tick (while let instead of if let)
MaybeRenderAllDue(t) ==
    /\ ctlPc = t
    /\ rb_lock[t] = "free"
    /\ LET frames == rendering_buffer[t]
           due == {n \in 0..Len(frames) :
                      \A i \in 1..n : should_render_frame(frames[i], TimeBase(t), now)}
           k == CHOOSE n \in due : \A m \in due : m <= n
       IN /\ rendering_buffer' = [rendering_buffer EXCEPT ![t] = SubSeq(frames, k + 1, Len(frames))]
          /\ rendered' = [rendered EXCEPT ![t] = @ \o SubSeq(frames, 1, k)]
          /\ refused' = [refused EXCEPT ![t] = @ \/ (k < Len(frames) /\ frames[k + 1].pts = None)]
    /\ ctlPc' = IF t = "video" THEN "audio" ELSE "events"
    /\ UNCHANGED <<stream, pos, player_buffer, pb_lock, pb_poisoned, rb_lock,
                   feederPc, decPc, decFrame, now, popped, eofMarks>>

\* a "maybe render" block in lockstep: a due head is held back while the other
\* track has a head that is not due
MaybeRenderLockstep(t) ==
    /\ ctlPc = t
    /\ rb_lock[t] = "free"
    /\ LET frames == rendering_buffer[t]
           other == rendering_buffer[CHOOSE o \in Track : o # t]
           otherTb == TimeBase(CHOOSE o \in Track : o # t)
       IN IF frames = <<>>
          THEN UNCHANGED <<rendering_buffer, rendered, refused>>
          ELSE IF /\ should_render_frame(Front(frames), TimeBase(t), now)
                  /\ (other = <<>> \/ should_render_frame(Front(other), otherTb, now))
          THEN /\ rendering_buffer' = [rendering_buffer EXCEPT ![t] = PopFront(@)]
               /\ rendered' = [rendered EXCEPT ![t] = Append(@, Front(frames))]
               /\ UNCHANGED refused
          ELSE /\ refused' = [refused EXCEPT ![t] = @ \/ Front(frames).pts = None]
               /\ UNCHANGED <<rendering_buffer, rendered>>
    /\ ctlPc' = IF t = "video" THEN "audio" ELSE "events"
    /\ UNCHANGED <<stream, pos, player_buffer, pb_lock, pb_poisoned, rb_lock,
                   feederPc, decPc, decFrame, now, popped, eofMarks>>

\* "maybe render video frame" / "maybe render audio frame": the head is popped
\* and handed to the renderer when should_render_frame says so
MaybeRender(t) ==
    /\ ctlPc = t
    /\ rb_lock[t] = "free"
    /\ LET frames == rendering_buffer[t] IN
        IF frames = <<>>
        THEN UNCHANGED <<rendering_buffer, rendered, refused>>
        ELSE IF should_render_frame(Front(frames), TimeBase(t), now)
        THEN /\ rendering_buffer' = [rendering_buffer EXCEPT ![t] = PopFront(@)]
             /\ rendered' = [rendered EXCEPT ![t] = Append(@, Front(frames))]
             /\ UNCHANGED refused
        ELSE /\ refused' = [refused EXCEPT ![t] = @ \/ Front(frames).pts = None]
             /\ UNCHANGED <<rendering_buffer, rendered>>
    /\ ctlPc' = IF t = "video" THEN "audio" ELSE "events"
    /\ UNCHANGED <<stream, pos, player_buffer, pb_lock, pb_poisoned, rb_lock,
                   feederPc, decPc, decFrame, now, popped, eofMarks>>

\* Event::Quit or Escape: break 'running
CtlQuit ==
    /\ ctlPc = "events"
    /\ ctlPc' = "quit"
    /\ UNCHANGED <<stream, pos, player_buffer, rendering_buffer, pb_lock, pb_poisoned,
                   rb_lock, feederPc, decPc, decFrame, now, popped, rendered, eofMarks, refused>>

\* no quit event in this tick
CtlNoQuit ==
    /\ ctlPc = "events"
    /\ ctlPc' = "lock_vrb"
    /\ UNCHANGED <<stream, pos, player_buffer, rendering_buffer, pb_lock, pb_poisoned,
                   rb_lock, feederPc, decPc, decFrame, now, popped, rendered, eofMarks, refused>>

\* let vrb = video_rendering_buffer.lock().unwrap()
CtlLockVrb ==
    /\ ctlPc = "lock_vrb"
    /\ rb_lock["video"] = "free"
    /\ rb_lock' = [rb_lock EXCEPT !["video"] = "main"]
    /\ ctlPc' = "lock_arb"
    /\ UNCHANGED <<stream, pos, player_buffer, rendering_buffer, pb_lock, pb_poisoned,
                   feederPc, decPc, decFrame, now, popped, rendered, eofMarks, refused>>

\* let arb = ..lock().unwrap(); vrb.is_empty() && arb.is_empty() holds
CtlBothEmpty ==
    /\ ctlPc = "lock_arb"
    /\ rb_lock["audio"] = "free"
    /\ is_empty(rendering_buffer["video"]) /\ is_empty(rendering_buffer["audio"])
    /\ rb_lock' = [rb_lock EXCEPT !["audio"] = "main"]
    /\ ctlPc' = "has_ended_video"
    /\ UNCHANGED <<stream, pos, player_buffer, rendering_buffer, pb_lock, pb_poisoned,
                   feederPc, decPc, decFrame, now, popped, rendered, eofMarks, refused>>

\* let arb = ..lock().unwrap(); a rendering buffer holds a frame: both guards
\* are dropped, the thread sleeps and the next tick starts
CtlSleep(d) ==
    /\ ctlPc = "lock_arb"
    /\ rb_lock["audio"] = "free"
    /\ ~(is_empty(rendering_buffer["video"]) /\ is_empty(rendering_buffer["audio"]))
    /\ rb_lock' = [t \in Track |-> "free"]
    /\ now' = Min(now + d, MaxTime)
    /\ ctlPc' = "video"
    /\ UNCHANGED <<stream, pos, player_buffer, rendering_buffer, pb_lock, pb_poisoned,
                   feederPc, decPc, decFrame, popped, rendered, eofMarks, refused>>

\* let vb = video_player_buffer.lock().unwrap().has_ended(): the value is not
\* used; a poisoned mutex makes unwrap() panic on the main thread
CtlHasEndedVideo ==
    /\ ctlPc = "has_ended_video"
    /\ pb_lock["video"] = "free"
    /\ IF pb_poisoned["video"]
       THEN ctlPc' = "panicked" /\ rb_lock' = [t \in Track |-> "free"]
       ELSE ctlPc' = "has_ended_audio" /\ UNCHANGED rb_lock
    /\ UNCHANGED <<stream, pos, player_buffer, rendering_buffer, pb_lock, pb_poisoned,
                   feederPc, decPc, decFrame, now, popped, rendered, eofMarks, refused>>

\* let ab = audio_player_buffer.lock().unwrap().has_ended(); return
CtlHasEndedAudio ==
    /\ ctlPc = "has_ended_audio"
    /\ pb_lock["audio"] = "free"
    /\ ctlPc' = IF pb_poisoned["audio"] THEN "panicked" ELSE "returned"
    /\ rb_lock' = [t \in Track |-> "free"]
    /\ UNCHANGED <<stream, pos, player_buffer, rendering_buffer, pb_lock, pb_poisoned,
                   feederPc, decPc, decFrame, now, popped, rendered, eofMarks, refused>>

----------------------------------------------------------------------------

Next ==
    \/ \E t \in Track : FeederPush(t)
    \/ FeederUnrecognized
    \/ FeederPoisoned
    \/ FeederEofVideo
    \/ FeederEofAudio
    \/ \E t \in Track : DecLock(t)
    \/ \E t \in Track : DecPop(t)
    \/ \E t \in Track : DecSendFails(t)
    \/ \E t \in Track : DecEmpty(t)
    \/ \E t \in Track : DecPush(t)
    \/ \E t \in Track : MaybeRender(t)
    \/ CtlQuit
    \/ CtlNoQuit
    \/ CtlLockVrb
    \/ CtlBothEmpty
    \/ \E d \in (SleepMillis * MilliUnits)..MaxSleep : CtlSleep(d)
    \/ CtlHasEndedVideo
    \/ CtlHasEndedAudio

Spec == Init /\ [][Next]_vars

----------------------------------------------------------------------------
(* Helpers of the properties *)

\* ids of the packets of track t the demultiplexer has yielded so far, in order
PulledOf(t) == SelectSeq([i \in 1..pos |-> i], LAMBDA i : stream[i].idx = StreamIndex(t))

IsPrefix(a, b) == Len(a) <= Len(b) /\ SubSeq(b, 1, Len(a)) = a

Ids(frames) == [i \in 1..Len(frames) |-> frames[i].id]

\* the only way a worker's closure ends is a panic: its loop has no exit
Stopped(pc) == pc \notin {"next", "eof_audio", "lock", "pop", "push"}

SessionEnded == ctlPc \in {"returned", "quit"}

\* the decoder of t has popped a packet that send_packet rejected
DecodeFailed(t) == \E i \in 1..Len(popped[t]) : ~stream[popped[t][i]].sendOk

----------------------------------------------------------------------------
(* Properties *)

\* C1: each of the four queues holds at most 10 items in every reachable state
QueueBound ==
    \A t \in Track :
        /\ Len(player_buffer[t].buffer) <= Capacity
        /\ Len(rendering_buffer[t]) <= Capacity

\* C2: the tick loop returns without a quit event only when both rendering
\* buffers are empty and both player buffers are drained (has_ended), never
\* while the demultiplexer still has packets
NaturalEndOnlyWhenDrained ==
    ctlPc = "returned" =>
        /\ pos = Len(stream)
        /\ \A t \in Track :
            is_empty(rendering_buffer[t]) /\ has_ended(player_buffer[t])

\* C3: there is no state in which the control thread waits for a player buffer
\* mutex held by a decoder that itself waits for a rendering buffer mutex held
\* by the control thread
NoLockCycle ==
    \A t \in Track :
        ~ /\ ctlPc = (IF t = "video" THEN "has_ended_video" ELSE "has_ended_audio")
          /\ pb_lock[t] = DecoderOf(t)
          /\ decPc[t] = "push"
          /\ rb_lock[t] = "main"

\* C4: whenever the session has ended (quit or natural end) the feeder and both
\* decoder threads have terminated
WorkersStoppedAtEnd ==
    SessionEnded => Stopped(feederPc) /\ \A t \in Track : Stopped(decPc[t])

\* C5: per track, the decoder pops packets in the order the demultiplexer
\* yielded them, and the frames handed to the sink and those still queued are,
\* in order, the frames of the packets the decoder popped
FifoOrder ==
    \A t \in Track :
        /\ IsPrefix(popped[t] \o player_buffer[t].buffer, PulledOf(t))
        /\ Ids(rendered[t] \o rendering_buffer[t] \o decFrame[t])
             = SelectSeq(popped[t], LAMBDA i : stream[i].sendOk)

FifoOrderWitness ==
    \E t \in Track :
        /\ Len(rendered[t]) >= 2
        /\ Len(rendering_buffer[t]) >= 2
        /\ Len(player_buffer[t].buffer) >= 2

\* C6: on exhaustion the feeder marks end-of-file on each player buffer exactly
\* once and then stops: no buffer is marked twice, and once both are marked the
\* feeder has terminated
FeederMarksOnceThenStops ==
    /\ \A t \in Track : eofMarks[t] # "again"
    /\ (\A t \in Track : eofMarks[t] # "never") => Stopped(feederPc)

\* C7: a decoder that finds its player buffer drained (empty, end-of-file set)
\* terminates
DecoderStopsWhenDrained ==
    [][\A t \in Track :
         (decPc[t] = "pop" /\ has_ended(player_buffer[t]) /\ decPc'[t] # decPc[t])
             => Stopped(decPc'[t])]_vars

\* C8: after a packet failed to decode its decoder has not terminated, the
\* control thread has not panicked, and the feeder has stopped only if it met
\* an unrecognized stream index
DecodeFailureIsolated ==
    \A t \in Track :
        DecodeFailed(t) =>
            /\ ~Stopped(decPc[t])
            /\ ctlPc # "panicked"
            /\ (Stopped(feederPc) => pos > 0 /\ stream[pos].idx = "other")

\* C9: a tick that finds an undated frame at the head of a rendering buffer
\* pops and discards it
UndatedHeadDiscarded ==
    [][\A t \in Track :
         (/\ ctlPc = t /\ ctlPc' # t
          /\ rendering_buffer[t] # <<>>
          /\ Front(rendering_buffer[t]).pts = None)
             => /\ rendering_buffer'[t] = PopFront(rendering_buffer[t])
                /\ rendered'[t] = rendered[t]]_vars

\* C10: no frame without a presentation timestamp is ever handed to a sink
UndatedNeverRendered ==
    \A t \in Track : \A i \in 1..Len(rendered[t]) : rendered[t][i].pts # None

UndatedNeverRenderedWitness ==
    \E t \in Track :
        /\ now > 0
        /\ rendering_buffer[t] # <<>>
        /\ Front(rendering_buffer[t]).pts = None
        /\ refused[t]
        /\ rendered[t] # <<>>

\* every packet of the stream is of a known track, is accepted by send_packet
\* and yields a frame that carries a presentation timestamp
AllDated ==
    \A i \in 1..Len(stream) :
        /\ \E t \in Track : stream[i].idx = StreamIndex(t)
        /\ stream[i].sendOk /\ stream[i].yields /\ stream[i].pts # None

\* ids of all the packets of track t in the stream, in order
StreamOf(t) ==
    SelectSeq([i \in 1..Len(stream) |-> i], LAMBDA i : stream[i].idx = StreamIndex(t))

\* C11: for a stream whose units all carry timestamps, the session ends
\* naturally only after every unit of both tracks has been handed to its sink,
\* in stream order
NaturalEndAfterAllPresented ==
    (ctlPc = "returned" /\ AllDated) =>
        \A t \in Track : Ids(rendered[t]) = StreamOf(t)

\* the step is an endOfFile() call of buffer_thread on the player buffer of t
MarksEof(t) ==
    IF t = "video" THEN feederPc = "next" /\ feederPc' = "eof_audio"
                   ELSE feederPc = "eof_audio" /\ feederPc' = "next"

\* C12: once end-of-file is set on a player buffer the flag stays set and no
\* packet is added to the buffer (it only loses its head to the decoder), and
\* an endOfFile() call on a buffer already marked leaves the buffer as it was
EofIsFinal ==
    [][\A t \in Track :
         player_buffer[t].ended =>
             /\ player_buffer'[t].ended
             /\ \/ player_buffer'[t].buffer = player_buffer[t].buffer
                \/ /\ player_buffer[t].buffer # <<>>
                   /\ player_buffer'[t].buffer = PopFront(player_buffer[t].buffer)
             /\ MarksEof(t) => player_buffer'[t] = player_buffer[t]]_vars

EofIsFinalWitness ==
    \E t \in Track :
        /\ player_buffer[t].ended
        /\ eofMarks[t] = "again"
        /\ player_buffer[t].buffer # <<>>
        /\ popped[t] # <<>>

\* C13: has_ended() of a player buffer is true exactly when the buffer is
\* empty and end-of-file is set, and once true it stays true
HasEndedIsDrainedForGood ==
    [][\A t \in Track :
         /\ has_ended(player_buffer[t])
              <=> (Len(player_buffer[t].buffer) = 0 /\ player_buffer[t].ended = TRUE)
         /\ has_ended(player_buffer[t]) => has_ended(player_buffer'[t])]_vars

HasEndedIsDrainedForGoodWitness ==
    \E t \in Track :
        /\ has_ended(player_buffer[t])
        /\ popped[t] # <<>>
        /\ eofMarks[t] = "again"

\* buffer_thread has met a packet of an unrecognized stream index
UnrecognizedMet == feederPc = "panicked" /\ pos > 0 /\ stream[pos].idx = "other"

\* C14: once the demultiplexer has yielded a packet of an unrecognized stream
\* index, the session does not end as if playback had completed (play() does
\* not return normally from the tick loop)
UnrecognizedIsFatal == UnrecognizedMet => ctlPc # "returned"

\* the step is the "maybe render" block of track t finding a dated head
TestsDatedHead(t) ==
    /\ ctlPc = t /\ ctlPc' # t
    /\ rendering_buffer[t] # <<>>
    /\ Head(rendering_buffer[t]).pts # None

\* elapsed (time units) has reached pts * time_base (seconds), exactly
DeadlineReached(pts, tb, elapsed) ==
    elapsed * tb.den >= pts * tb.num * 1000 * MilliUnits

\* elapsed (time units) is past pts * time_base cut to whole milliseconds
PastTruncatedDeadline(pts, tb, elapsed) ==
    elapsed > ((pts * tb.num * 1000) \div tb.den) * MilliUnits

\* C15 as stated: the due test is true (the dated head is popped) exactly when
\* the elapsed playback time is at least pts * time_base, the instant of the
\* deadline included
DueFromDeadlineOn ==
    [][\A t \in Track :
         TestsDatedHead(t) =>
             (rendered'[t] # rendered[t]
                <=> DeadlineReached(Head(rendering_buffer[t]).pts[1], TimeBase(t), now))]_vars

\* C15 amended: the due test is true exactly when the elapsed playback time is
\* strictly past pts * time_base cut to whole milliseconds (false at that
\* instant itself), and it never turns from true to false as time advances
DuePastTruncatedDeadline ==
    [][\A t \in Track :
         TestsDatedHead(t) =>
             LET frame == Head(rendering_buffer[t]) IN
               /\ rendered'[t] # rendered[t]
                    <=> PastTruncatedDeadline(frame.pts[1], TimeBase(t), now)
               /\ \A e1 \in 0..MaxTime : \A e2 \in e1..MaxTime :
                    should_render_frame(frame, TimeBase(t), e1)
                        => should_render_frame(frame, TimeBase(t), e2)]_vars

DuePastTruncatedDeadlineWitness ==
    /\ ctlPc = "events"
    /\ rendering_buffer["video"] # <<>>
    /\ Front(rendering_buffer["video"]).pts # None
    /\ now = ShowTimeMillis(Front(rendering_buffer["video"]).pts[1], TimeBase("video"))
               * MilliUnits
    /\ now > 0
    /\ rendered["video"] = <<>>
    /\ rendered["audio"] # <<>>

\* C16: every frame on a rendering buffer (or handed on from it) is a raw unit
\* the decoder produced: nothing is pushed for a packet receive_frame yielded
\* no frame for
OnlyProducedFramesPushed ==
    \A t \in Track :
        LET pushed == rendered[t] \o rendering_buffer[t] IN
            \A i \in 1..Len(pushed) : stream[pushed[i].id].yields /\ ~pushed[i].empty

\* C17: a rendering buffer loses frames, and a sink gets frames, only in the
\* "maybe render" block of that track and one frame at a time, and the control
\* thread enters that block once per tick (video after the sleep that ends the
\* previous tick, audio after the video block)
OnePopPerTrackPerTick ==
    [][\A t \in Track :
         /\ (Len(rendering_buffer'[t]) < Len(rendering_buffer[t]) \/ rendered'[t] # rendered[t])
              => /\ ctlPc = t /\ ctlPc' # t
                 /\ rendering_buffer'[t] = PopFront(rendering_buffer[t])
                 /\ Len(rendered'[t]) = Len(rendered[t]) + 1
         /\ (ctlPc' = t /\ ctlPc # t)
              => IF t = "video" THEN ctlPc = "lock_arb" ELSE ctlPc = "video"]_vars

OnePopPerTrackPerTickWitness ==
    \E t \in Track :
        /\ ctlPc = (IF t = "video" THEN "audio" ELSE "events")
        /\ Len(rendered[t]) = 1
        /\ Len(rendering_buffer[t]) >= 2
        /\ \A i \in 1..Len(rendering_buffer[t]) :
               should_render_frame(rendering_buffer[t][i], TimeBase(t), now)

\* C18 as stated: a dated head that is not yet due leaves its rendering buffer
\* unchanged, and a frame is handed to a sink only if it was the head of its
\* buffer and the elapsed time had reached its deadline pts * time_base
HeadOnlyAfterDeadline ==
    [][\A t \in Track :
         /\ (TestsDatedHead(t)
               /\ ~DeadlineReached(Head(rendering_buffer[t]).pts[1], TimeBase(t), now))
              => rendering_buffer'[t] = rendering_buffer[t] /\ rendered'[t] = rendered[t]
         /\ rendered'[t] # rendered[t]
              => /\ rendering_buffer[t] # <<>>
                 /\ rendered'[t] = Append(rendered[t], Head(rendering_buffer[t]))
                 /\ Head(rendering_buffer[t]).pts # None
                 /\ DeadlineReached(Head(rendering_buffer[t]).pts[1], TimeBase(t), now)]_vars

\* C18 amended: the same with the deadline cut to whole milliseconds: a dated
\* head not past it stays queued, a frame handed to a sink was the head of its
\* buffer and the elapsed time was past its deadline cut to whole milliseconds
HeadOnlyPastTruncatedDeadline ==
    [][\A t \in Track :
         /\ (TestsDatedHead(t)
               /\ ~PastTruncatedDeadline(Head(rendering_buffer[t]).pts[1], TimeBase(t), now))
              => rendering_buffer'[t] = rendering_buffer[t] /\ rendered'[t] = rendered[t]
         /\ rendered'[t] # rendered[t]
              => /\ rendering_buffer[t] # <<>>
                 /\ rendered'[t] = Append(rendered[t], Head(rendering_buffer[t]))
                 /\ rendering_buffer'[t] = Tail(rendering_buffer[t])
                 /\ Head(rendering_buffer[t]).pts # None
                 /\ PastTruncatedDeadline(Head(rendering_buffer[t]).pts[1], TimeBase(t), now)]_vars

HeadOnlyPastTruncatedDeadlineWitness ==
    /\ ctlPc = "events"
    /\ now > 0
    /\ Len(rendering_buffer["video"]) >= 2
    /\ \A i \in 1..Len(rendering_buffer["video"]) :
           /\ rendering_buffer["video"][i].pts # None
           /\ ~should_render_frame(rendering_buffer["video"][i], TimeBase("video"), now)
    /\ rendered["video"] = <<>>

\* C19: the "maybe render" block of a track is never kept waiting (its mutex
\* is free when the control thread reaches it), and when it finds a due head it
\* hands it to the sink, whatever the other track's buffer holds
TracksIndependent ==
    [][\A t \in Track :
         /\ ctlPc = t => rb_lock[t] = "free"
         /\ (TestsDatedHead(t)
               /\ PastTruncatedDeadline(Head(rendering_buffer[t]).pts[1], TimeBase(t), now))
              => /\ rendered'[t] = Append(rendered[t], Head(rendering_buffer[t]))
                 /\ rendering_buffer'[t] = Tail(rendering_buffer[t])]_vars

TracksIndependentWitness ==
    /\ ctlPc = "events"
    /\ rendered["audio"] # <<>>
    /\ rendered["video"] = <<>>
    /\ rendering_buffer["video"] # <<>>
    /\ Head(rendering_buffer["video"]).pts # None
    /\ ~PastTruncatedDeadline(Head(rendering_buffer["video"]).pts[1], TimeBase("video"), now)
    /\ now < MilliUnits

\* number of times x occurs in the sequence
Count(seq, x) == Cardinality({k \in 1..Len(seq) : seq[k] = x})

\* no value occurs twice in the sequence
NoRepeat(seq) == \A a, b \in 1..Len(seq) : a < b => seq[a] # seq[b]

\* the packets of track t that reached its player buffer: popped or still queued
Buffered(t) == popped[t] \o player_buffer[t].buffer

\* ids of the frames of track t: handed to the sink, queued, or in the
\* decoder's hands
Frames(t) == Ids(rendered[t] \o rendering_buffer[t] \o decFrame[t])

\* C20 as stated: every packet pulled from the demultiplexer has been pushed to
\* exactly one player buffer, the one of its stream index
PulledPushedExactlyOnce ==
    \A i \in 1..pos :
        /\ \E t \in Track : stream[i].idx = StreamIndex(t) /\ Count(Buffered(t), i) = 1
        /\ \A t \in Track : stream[i].idx # StreamIndex(t) => Count(Buffered(t), i) = 0

\* C20 amended: every packet pulled is pushed to at most one player buffer,
\* the one of its stream index, is popped at most once, and its frame is handed
\* to the sink at most once and is nowhere else at the same time
NoUnitDuplicated ==
    \A t \in Track :
        /\ NoRepeat(Buffered(t))
        /\ \A k \in 1..Len(Buffered(t)) :
              /\ Buffered(t)[k] <= pos
              /\ stream[Buffered(t)[k]].idx = StreamIndex(t)
        /\ NoRepeat(Frames(t))
        /\ \A k \in 1..Len(Frames(t)) : Count(popped[t], Frames(t)[k]) = 1

NoUnitDuplicatedWitness ==
    \E t \in Track :
        /\ pos = Len(stream) /\ pos >= 2
        /\ Len(popped[t]) >= 2
        /\ Len(rendered[t]) >= 2

====
